---- MODULE Spec2Model ----
(***************************************************************************)
(* Model of the Steam alias plugin (src/plugin.py): the JSON alias store   *)
(* (_load_store / _save_store under one threading.Lock), the identifier    *)
(* normalisation of SteamService and the subcommands of SteamCommand.      *)
(* Strings are sequences of one-character strings.                         *)
(***************************************************************************)
EXTENDS Integers, Sequences, FiniteSets, TLC

(* ------------------------------ bounds -------------------------------- *)
\* longest enumerated identifier string of NormSpec
MaxLen == 3
\* command invocations started in one behaviour
MaxCmds == 2
\* largest value the wall clock takes (seconds)
MaxClock == 1

(* ------------------------------ strings ------------------------------- *)
\* characters str.strip() removes (the whitespace of the modelled alphabet)
IsSpace(c) == c = " "

\* Characters outside ASCII are written by their code point: "U+0663" is
\* ARABIC-INDIC DIGIT THREE, "U+FF11" FULLWIDTH DIGIT ONE, "U+00B2"
\* SUPERSCRIPT TWO. Each is one character of a string.
AsciiDigits == {"0", "1", "2", "3", "4", "5", "6", "7", "8", "9"}

\* the characters int() reads as a decimal digit (Unicode category Nd)
IsDecimalChar(c) == c \in AsciiDigits \cup {"U+0663", "U+FF11"}

\* str.isdigit() on one character: the decimal digits and the other digit
\* characters, such as the superscripts
IsDigitChar(c) == IsDecimalChar(c) \/ c \in {"U+00B2"}

RECURSIVE LStripSpace(_)
LStripSpace(s) ==
    IF s = <<>> THEN s
    ELSE IF IsSpace(Head(s)) THEN LStripSpace(Tail(s)) ELSE s

RECURSIVE RStripSpace(_)
RStripSpace(s) ==
    IF s = <<>> THEN s
    ELSE IF IsSpace(s[Len(s)]) THEN RStripSpace(SubSeq(s, 1, Len(s) - 1)) ELSE s

\* str.strip()
Strip(s) == RStripSpace(LStripSpace(s))

\* str.lstrip("@")
RECURSIVE LStripAt(_)
LStripAt(s) ==
    IF s = <<>> THEN s
    ELSE IF Head(s) = "@" THEN LStripAt(Tail(s)) ELSE s

\* str.lower() on one character
UpperLetters == <<"A", "B", "C", "D", "E", "F", "G", "H", "I", "J", "K", "L", "M",
                  "N", "O", "P", "Q", "R", "S", "T", "U", "V", "W", "X", "Y", "Z">>
LowerLetters == <<"a", "b", "c", "d", "e", "f", "g", "h", "i", "j", "k", "l", "m",
                  "n", "o", "p", "q", "r", "s", "t", "u", "v", "w", "x", "y", "z">>
LowerChar(c) ==
    IF \E i \in 1..26 : UpperLetters[i] = c
    THEN LowerLetters[CHOOSE i \in 1..26 : UpperLetters[i] = c]
    ELSE c

\* str.lower()
Lower(s) == [i \in 1..Len(s) |-> LowerChar(s[i])]

\* str.isdigit(): nonempty and every character a digit
IsDigit(s) == s # <<>> /\ \A i \in 1..Len(s) : IsDigitChar(s[i])

\* norm_alias without its .lower()
norm_alias_nolower(s) == LStripAt(Strip(s))

\* SteamService.norm_alias
norm_alias(s) == Lower(LStripAt(Strip(s)))

(* ------------------------ optional values ----------------------------- *)
\* Python None / a str value
None == [some |-> FALSE, val |-> <<>>]
Some(s) == [some |-> TRUE, val |-> s]
\* Python truthiness of an Optional[str]
Truthy(x) == x.some /\ x.val # <<>>

(* -------------------- unbounded integer arithmetic -------------------- *)
\* Python ints are unbounded: a number is its sequence of decimal digits,
\* most significant first, without leading zeros (zero is <<0>>).
DigitOf(c) ==
    CASE c = "0" -> 0 [] c = "1" -> 1 [] c = "2" -> 2 [] c = "3" -> 3
      [] c = "4" -> 4 [] c = "5" -> 5 [] c = "6" -> 6 [] c = "7" -> 7
      [] c = "8" -> 8 [] c = "9" -> 9
      [] c = "U+0663" -> 3 [] c = "U+FF11" -> 1

CharOf(d) == <<"0", "1", "2", "3", "4", "5", "6", "7", "8", "9">>[d + 1]

RECURSIVE DropZeros(_)
DropZeros(ds) ==
    IF Len(ds) > 1 /\ Head(ds) = 0 THEN DropZeros(Tail(ds)) ELSE ds

\* int(s) raises ValueError unless every character is a decimal digit
IntParses(s) == \A i \in 1..Len(s) : IsDecimalChar(s[i])

\* int(s) of a string of decimal digits
IntOf(s) == DropZeros([i \in 1..Len(s) |-> DigitOf(s[i])])

Rev(s) == [i \in 1..Len(s) |-> s[Len(s) + 1 - i]]

\* digit-wise addition, least significant digit first
RECURSIVE AddRev(_, _, _)
AddRev(a, b, carry) ==
    IF a = <<>> /\ b = <<>>
    THEN IF carry = 0 THEN <<>> ELSE <<carry>>
    ELSE LET x == IF a = <<>> THEN 0 ELSE Head(a)
             y == IF b = <<>> THEN 0 ELSE Head(b)
             t == x + y + carry
         IN  <<t % 10>> \o AddRev(IF a = <<>> THEN a ELSE Tail(a),
                                  IF b = <<>> THEN b ELSE Tail(b),
                                  t \div 10)

Add(a, b) == DropZeros(Rev(AddRev(Rev(a), Rev(b), 0)))

\* str(n)
StrOf(ds) == [i \in 1..Len(ds) |-> CharOf(ds[i])]

\* 76561197960265728, the SteamID32 -> SteamID64 offset
SteamId64Offset == <<7, 6, 5, 6, 1, 1, 9, 7, 9, 6, 0, 2, 6, 5, 7, 2, 8>>

\* len(s) >= 16 means the input already is a SteamID64
SteamId64MinLen == 16

(* --------------------------- remote API -------------------------------- *)
\* The SteamID64 the vanity endpoint answers with
VanitySteamId == <<"7", "6", "5", "6", "1", "1", "9", "7", "9", "6", "0", "2", "6", "5", "7", "2", "9">>

\* Outcomes of requests.get(.../ResolveVanityURL/v1/): an exception (transport
\* error, timeout, HTTP error status, malformed body) or a JSON "response"
\* object with its success code and steamid ("" when the field is missing).
VanityResponses ==
    { [kind |-> "error", success |-> 0,  steamid |-> <<>>],
      [kind |-> "json",  success |-> 1,  steamid |-> VanitySteamId],
      [kind |-> "json",  success |-> 1,  steamid |-> <<>>],
      [kind |-> "json",  success |-> 42, steamid |-> <<>>] }

\* SteamService.resolve_vanity, given the outcome of its request
resolve_vanity(resp) ==
    IF resp.kind = "json" /\ resp.success = 1 /\ resp.steamid # <<>>
    THEN Some(resp.steamid)
    ELSE None

\* The empty dict get_summary returns on any failure
NoInfo == [empty |-> TRUE, personaname |-> "", profileurl |-> ""]

\* Outcomes of requests.get(.../GetPlayerSummaries/v2/): an exception or the
\* "players" list of the JSON body.
SummaryResponses ==
    { [kind |-> "error", players |-> <<>>],
      [kind |-> "json",  players |-> <<>>],
      [kind |-> "json",  players |-> << [empty |-> FALSE, personaname |-> "Gabe",
                                          profileurl |-> "url"] >>] }

\* SteamService.get_summary, given the outcome of its request
get_summary(resp) ==
    IF resp.kind = "json" /\ resp.players # <<>> THEN resp.players[1] ELSE NoInfo

\* SteamService.__init__: (api_key or "").strip()
ApiKeyOf(config) == Strip(config)

(* ---------------------- SteamService.norm_identifier ------------------- *)
\* The string norm_identifier works on: s.strip().lstrip("@")
IdentCore(s) == LStripAt(Strip(s))

\* TRUE when norm_identifier ends in resolve_vanity(s)
IsVanity(s) == IdentCore(s) # <<>> /\ ~IsDigit(IdentCore(s))

\* TRUE when that resolve_vanity issues an HTTP request (the key is set)
VanityCalls(s, apiKey) == IsVanity(s) /\ apiKey # <<>>

\* SteamID32 -> SteamID64: str(int(s) + 76561197960265728), None when
\* int(s) raises (the except branch)
Sid32To64(s) ==
    IF IntParses(s) THEN Some(StrOf(Add(IntOf(s), SteamId64Offset))) ELSE None

\* norm_identifier with the SteamID64 test written `len(s) > 16`
norm_identifier_gt(s, apiKey, resp) ==
    LET c == IdentCore(s) IN
    IF c = <<>> THEN None
    ELSE IF IsDigit(c)
         THEN IF Len(c) > SteamId64MinLen THEN Some(c) ELSE Sid32To64(c)
         ELSE IF apiKey = <<>> THEN None ELSE resolve_vanity(resp)

\* SteamService.norm_identifier; resp is the outcome of the vanity request,
\* looked at only when VanityCalls(s, apiKey)
norm_identifier(s, apiKey, resp) ==
    LET c == IdentCore(s) IN
    IF c = <<>> THEN None
    ELSE IF IsDigit(c)
         THEN IF Len(c) >= SteamId64MinLen THEN Some(c) ELSE Sid32To64(c)
         ELSE IF apiKey = <<>> THEN None ELSE resolve_vanity(resp)

(* ------------------------------ the store ------------------------------ *)
\* A Python dict keeps insertion order and one value per key. The store is
\* the sequence of its items [chat, aliases]; a chat's "aliases" dict is the
\* sequence of its items [alias, rec].
EmptyStore == <<>>

\* the position of key k among the items s (0: absent); kf names the key field
RECURSIVE IndexFrom(_, _, _, _)
IndexFrom(s, k, kf, i) ==
    IF i > Len(s) THEN 0
    ELSE IF s[i][kf] = k THEN i ELSE IndexFrom(s, k, kf, i + 1)

ChatIndex(store, chat) == IndexFrom(store, chat, "chat", 1)
AliasIndex(aliases, alias) == IndexFrom(aliases, alias, "alias", 1)

\* store.get(chat, {}).get("aliases", {})
AliasesOf(store, chat) ==
    IF ChatIndex(store, chat) = 0 THEN <<>> ELSE store[ChatIndex(store, chat)].aliases

\* alias in aliases
HasAlias(aliases, alias) == AliasIndex(aliases, alias) # 0

\* aliases.get(alias): the record or None
NoRec == [some |-> FALSE, steamid |-> <<>>, personaname |-> "", profileurl |-> "",
          created_at |-> 0]
GetRec(aliases, alias) ==
    IF HasAlias(aliases, alias)
    THEN [some |-> TRUE] @@ aliases[AliasIndex(aliases, alias)].rec
    ELSE NoRec

\* aliases[alias] = rec: the value of an existing key is replaced in place,
\* a new key is appended
SetItem(aliases, alias, rec) ==
    IF HasAlias(aliases, alias)
    THEN [aliases EXCEPT ![AliasIndex(aliases, alias)].rec = rec]
    ELSE Append(aliases, [alias |-> alias, rec |-> rec])

\* del aliases[alias]
DelItem(aliases, alias) ==
    LET i == AliasIndex(aliases, alias) IN
    SubSeq(aliases, 1, i - 1) \o SubSeq(aliases, i + 1, Len(aliases))

\* store.setdefault(chat, {}).setdefault("aliases", {}): the store with the
\* chat's item present
SetDefaultChat(store, chat) ==
    IF ChatIndex(store, chat) # 0 THEN store
    ELSE Append(store, [chat |-> chat, aliases |-> <<>>])

\* the store after the chat's aliases dict was mutated to `aliases`
WithAliases(store, chat, aliases) ==
    [store EXCEPT ![ChatIndex(store, chat)].aliases = aliases]

(* ---------------------------- serialisation ---------------------------- *)
\* json.dump writes the document piece by piece. A document is a sequence of
\* tokens: the opening brace, per chat its key and one token per alias item,
\* the closing brace. A proper prefix of a document does not parse.
TokOpen == [t |-> "{"]
TokClose == [t |-> "}"]
TokChat(c) == [t |-> "chat", chat |-> c]
TokAlias(item) == [t |-> "alias", alias |-> item.alias, rec |-> item.rec]

RECURSIVE AliasTokens(_)
AliasTokens(aliases) ==
    IF aliases = <<>> THEN <<>>
    ELSE <<TokAlias(Head(aliases))>> \o AliasTokens(Tail(aliases))

RECURSIVE ChatTokens(_)
ChatTokens(store) ==
    IF store = <<>> THEN <<>>
    ELSE <<TokChat(Head(store).chat)>> \o AliasTokens(Head(store).aliases)
         \o ChatTokens(Tail(store))

\* json.dump(store, f, ensure_ascii=False, indent=2)
Serialize(store) == <<TokOpen>> \o ChatTokens(store) \o <<TokClose>>

\* the items between the braces, read left to right into acc
RECURSIVE ParseItems(_, _)
ParseItems(toks, acc) ==
    IF toks = <<>> THEN [ok |-> TRUE, store |-> acc]
    ELSE LET tk == Head(toks) IN
         IF tk.t = "chat"
         THEN ParseItems(Tail(toks), Append(acc, [chat |-> tk.chat, aliases |-> <<>>]))
         ELSE IF tk.t = "alias" /\ acc # <<>>
         THEN ParseItems(Tail(toks),
                  [acc EXCEPT ![Len(acc)].aliases =
                      Append(@, [alias |-> tk.alias, rec |-> tk.rec])])
         ELSE [ok |-> FALSE, store |-> <<>>]

\* json.load(f): ok is FALSE when it raises
Parse(toks) ==
    IF Len(toks) >= 2 /\ toks[1] = TokOpen /\ toks[Len(toks)] = TokClose
    THEN ParseItems(SubSeq(toks, 2, Len(toks) - 1), <<>>)
    ELSE [ok |-> FALSE, store |-> <<>>]

\* A file of the plugin's directory: absent, or its content
Absent == [exists |-> FALSE, data |-> <<>>]
FileOf(toks) == [exists |-> TRUE, data |-> toks]

\* What _load_store returns for the data file f when open and read succeed
LoadResult(f) ==
    IF ~f.exists THEN EmptyStore
    ELSE IF Parse(f.data).ok THEN Parse(f.data).store ELSE EmptyStore

\* Every way _load_store can return for the data file f: as above, or, the
\* file being there, open or read raises OSError and `except Exception`
\* returns {} (fault: the read raised)
LoadOutcomes(f) ==
    { [store |-> LoadResult(f), fault |-> FALSE] }
      \cup (IF f.exists THEN { [store |-> EmptyStore, fault |-> TRUE] } ELSE {})

(* --------------------------- chat contexts ----------------------------- *)
\* The keys _get_chat_key looks at, in its order
ChatKeyNames == <<"chat_id", "chat", "group_id", "room_id", "channel_id", "conversation_id">>

\* A context dict: the value of each key, "" standing for absent or falsy
NoContext == [k \in {ChatKeyNames[i] : i \in 1..Len(ChatKeyNames)} |-> ""]
Contexts ==
    { NoContext,
      [NoContext EXCEPT !["group_id"] = "B", !["room_id"] = "A"] }

RECURSIVE FirstKey(_, _)
FirstKey(ctx, i) ==
    IF i > Len(ChatKeyNames) THEN "global"
    ELSE IF ctx[ChatKeyNames[i]] # "" THEN ctx[ChatKeyNames[i]] ELSE FirstKey(ctx, i + 1)

\* _get_chat_key
_get_chat_key(ctx) == FirstKey(ctx, 1)

(* ------------------------------- state --------------------------------- *)
\* the threads of the host that run command invocations: two, the least
\* number that lets invocations overlap
Threads == {1, 2}

\* the matched groups "a" and "b" the host hands to execute ("" when absent)
AliasArgs == { <<>>, <<"@", "F", "o", "o">>, <<"f", "o", "o">>,
               <<" ", "F", "O", "O", " ">>, <<"b">> }
IdentArgs == { <<>>, <<"1">>, <<"g">> }

\* the verbs execute compares the lower-cased group "sub" with
VerbHelp == <<"h", "e", "l", "p">>
VerbList == <<"l", "i", "s", "t">>
VerbUnlink == <<"u", "n", "l", "i", "n", "k">>
VerbWhois == <<"w", "h", "o", "i", "s">>
VerbLink == <<"l", "i", "n", "k">>
VerbStatus == <<"s", "t", "a", "t", "u", "s">>

\* the group "sub" the host hands to execute: a verb of command_pattern, as
\* written or in upper case (a host matching without regard to case), or
\* nothing (<<>>: the group is None or "")
Subs == { VerbHelp, VerbList, VerbUnlink, VerbWhois, VerbLink, VerbStatus, <<>>,
          <<"H", "E", "L", "P">>, <<"L", "I", "S", "T">>, <<"L", "i", "n", "k">> }

\* the groups that reach a handler: "a" is read by all but help and list,
\* "b" by link alone
ArgsA(sub, aArgs) ==
    IF Lower(sub) \in {<<>>, VerbHelp, VerbList} THEN {<<>>} ELSE aArgs
ArgsB(sub, bArgs) == IF Lower(sub) = VerbLink THEN bArgs ELSE {<<>>}

\* values of the steam.api_key setting
Configs == { <<" ">>, <<"k">> }

VARIABLES
    config,   \* the steam.api_key setting
    file,     \* DATA_FILE (data.json)
    tmp,      \* DATA_FILE + ".tmp"
    lock,     \* _lock: 0 when free, else the thread holding it
    started,  \* command invocations started so far
    pc,       \* per thread: where its invocation stands
    cmd,      \* per thread: the handler called and its arguments
    loc,      \* per thread: the handler's local variables
    result,   \* per thread: the text the handler returned
    calls,    \* per thread: HTTP requests issued by the invocation
    writes,   \* per thread: writes of DATA_FILE made by the invocation
    nIn, nOut, nCalls, nDone  \* norm_identifier on its own: its input, its result,
                              \* the requests it issued, whether it has returned

vars == <<config, file, tmp, lock, started, pc, cmd, loc, result, calls,
          writes, nIn, nOut, nCalls, nDone>>
normVars == <<nIn, nOut, nCalls, nDone>>

NoCmd == [sub |-> "", a |-> <<>>, b |-> <<>>, ctx |-> NoContext]
NoLoc == [sid |-> None, info |-> NoInfo, store |-> EmptyStore, fault |-> FALSE, now |-> 0]
NoResult == [msg |-> "", shown |-> {}]
Text(m, shown) == [msg |-> m, shown |-> shown]

\* what one step of a handler leaves behind: the next position, the locals,
\* the returned text (if it returned) and the requests issued so far
Step(nextPc, l, r, c) == [pc |-> nextPc, loc |-> l, result |-> r, calls |-> c]
Return(m, shown, l, c) == Step("done", l, Text(m, shown), c)

Init ==
    /\ config \in Configs
    /\ file = Absent
    /\ tmp = Absent
    /\ lock = 0
    /\ started = 0
    /\ pc = [p \in Threads |-> "idle"]
    /\ cmd = [p \in Threads |-> NoCmd]
    /\ loc = [p \in Threads |-> NoLoc]
    /\ result = [p \in Threads |-> NoResult]
    /\ calls = [p \in Threads |-> 0]
    /\ writes = [p \in Threads |-> 0]
    /\ nIn = <<>> /\ nOut = None /\ nCalls = 0 /\ nDone = FALSE

(* ----------------------------- the handlers ----------------------------- *)
\* the steamids of the records of an aliases dict
SidsOf(aliases) == { aliases[i].rec.steamid : i \in 1..Len(aliases) }

\* AfterInfo with do_link missing its `if not info` return
AfterInfoUnchecked(sub, l, c) ==
    CASE sub = "link" -> Step("load", l, NoResult, c)
      [] sub = "whois" ->
           IF l.info.empty THEN Return("whois_nofetch", {l.sid.val}, l, c)
           ELSE Return("whois", {l.sid.val}, l, c)
      [] sub = "status" ->
           IF l.info.empty THEN Return("fetch_failed", {l.sid.val}, l, c)
           ELSE Return("status", {l.sid.val}, l, c)

\* do_link, do_whois, do_status from the point where get_summary returned
AfterInfo(sub, l, c) ==
    CASE sub = "link" ->
           IF l.info.empty THEN Return("bind_failed", {}, l, c)
           ELSE Step("load", l, NoResult, c)
      [] sub = "whois" ->
           IF l.info.empty THEN Return("whois_nofetch", {l.sid.val}, l, c)
           ELSE Return("whois", {l.sid.val}, l, c)
      [] sub = "status" ->
           IF l.info.empty THEN Return("fetch_failed", {l.sid.val}, l, c)
           ELSE Return("status", {l.sid.val}, l, c)

\* SteamService.get_summary(l.sid): without a key it returns {} at once,
\* with one it issues its request
CallSummary(sub, l, apiKey, c) ==
    IF apiKey = <<>> THEN AfterInfo(sub, [l EXCEPT !.info = NoInfo], c)
    ELSE Step("summary_wait", l, NoResult, c + 1)

\* do_link and do_status from the point where the steamid is known
AfterSid(sub, l, apiKey, c) ==
    IF ~Truthy(l.sid) THEN Return("unresolved", {}, l, c)
    ELSE CallSummary(sub, l, apiKey, c)

\* service.norm_identifier(ident) inside a handler: a vanity name with a key
\* set issues the request, anything else is settled at once
CallNormIdentifier(sub, ident, l, apiKey, c) ==
    IF VanityCalls(ident, apiKey) THEN Step("vanity_wait", l, NoResult, c + 1)
    ELSE AfterSid(sub, [l EXCEPT !.sid = norm_identifier(ident, apiKey, None)], apiKey, c)

\* do_link up to its first request or return
do_link(alias, ident, apiKey, l, c) ==
    IF apiKey = <<>> THEN Return("config_error", {}, l, c)
    ELSE CallNormIdentifier("link", ident, l, apiKey, c)

\* the record do_link stores
NewRec(l, now) ==
    [steamid |-> l.sid.val, profileurl |-> l.info.profileurl,
     personaname |-> l.info.personaname, created_at |-> now]

\* do_link lines 207-215: the loaded store with the alias bound
LinkStore(st, chat, alias, rec) ==
    LET s1 == SetDefaultChat(st, chat)
    IN  WithAliases(s1, chat, SetItem(AliasesOf(s1, chat), alias, rec))

\* do_unlink deleting the alias from the aliases dict of every chat
UnlinkStoreAllChats(st, chat, alias) ==
    [i \in 1..Len(st) |->
        [st[i] EXCEPT !.aliases = IF HasAlias(@, alias) THEN DelItem(@, alias) ELSE @]]

\* do_unlink lines 223-226: the loaded store with the alias deleted
UnlinkStore(st, chat, alias) ==
    WithAliases(st, chat, DelItem(AliasesOf(st, chat), alias))

\* AfterLoad with do_unlink calling _save_store before it looks for the alias
AfterLoadSaveFirst(c0, l0, st, apiKey, c, now) ==
    LET chat == _get_chat_key(c0.ctx)
        aliases == AliasesOf(st, chat)
        l == [l0 EXCEPT !.store = st]
    IN
    CASE c0.sub = "list" ->
           IF aliases = <<>> THEN Return("no_bindings", {}, l, c)
           ELSE Return("listing", SidsOf(aliases), l, c)
      [] c0.sub = "unlink" ->
           LET alias == Lower(LStripAt(Strip(c0.a))) IN
           IF ~HasAlias(aliases, alias) THEN Step("save", l, NoResult, c)
           ELSE Step("save", [l EXCEPT !.store = UnlinkStore(st, chat, alias)], NoResult, c)
      [] c0.sub = "whois" ->
           LET rec == GetRec(aliases, Lower(LStripAt(Strip(c0.a)))) IN
           IF ~rec.some THEN Return("not_found", {}, l, c)
           ELSE CallSummary("whois", [l EXCEPT !.sid = Some(rec.steamid)], apiKey, c)
      [] c0.sub = "status" ->
           LET rec == GetRec(aliases, norm_alias(c0.a)) IN
           IF rec.some
           THEN AfterSid("status", [l EXCEPT !.sid = Some(rec.steamid)], apiKey, c)
           ELSE CallNormIdentifier("status", c0.a, l, apiKey, c)
      [] c0.sub = "link" ->
           Step("save",
                [l EXCEPT !.store = LinkStore(st, chat, norm_alias(c0.a), NewRec(l0, now)),
                          !.now = now],
                NoResult, c)

\* the handlers from the point where _load_store returned st
AfterLoad(c0, l0, st, apiKey, c, now) ==
    LET chat == _get_chat_key(c0.ctx)
        aliases == AliasesOf(st, chat)
        l == [l0 EXCEPT !.store = st]
    IN
    CASE c0.sub = "list" ->
           IF aliases = <<>> THEN Return("no_bindings", {}, l, c)
           ELSE Return("listing", SidsOf(aliases), l, c)
      [] c0.sub = "unlink" ->
           LET alias == Lower(LStripAt(Strip(c0.a))) IN
           IF ~HasAlias(aliases, alias) THEN Return("not_found", {}, l, c)
           ELSE Step("save", [l EXCEPT !.store = UnlinkStore(st, chat, alias)], NoResult, c)
      [] c0.sub = "whois" ->
           LET rec == GetRec(aliases, Lower(LStripAt(Strip(c0.a)))) IN
           IF ~rec.some THEN Return("not_found", {}, l, c)
           ELSE CallSummary("whois", [l EXCEPT !.sid = Some(rec.steamid)], apiKey, c)
      [] c0.sub = "status" ->
           LET rec == GetRec(aliases, norm_alias(c0.a)) IN
           IF rec.some
           THEN AfterSid("status", [l EXCEPT !.sid = Some(rec.steamid)], apiKey, c)
           ELSE CallNormIdentifier("status", c0.a, l, apiKey, c)
      [] c0.sub = "link" ->
           Step("save",
                [l EXCEPT !.store = LinkStore(st, chat, norm_alias(c0.a), NewRec(l0, now)),
                          !.now = now],
                NoResult, c)

\* SteamCommand.execute: the group "sub" is lower-cased and the handler
\* chosen for it (help also when it is empty, "usage" when none is called),
\* with the arguments it is called with, up to the handler's first blocking
\* point
Dispatch(subIn, a, b, ctx, apiKey) ==
    LET sub == Lower(subIn)
        called(h, x, y) == [sub |-> h, a |-> x, b |-> y, ctx |-> ctx]
    IN
    CASE sub = VerbHelp \/ sub = <<>> ->
           [cmd |-> called("help", <<>>, <<>>), st |-> Return("help", {}, NoLoc, 0)]
      [] sub = VerbList ->
           [cmd |-> called("list", <<>>, <<>>), st |-> Step("load", NoLoc, NoResult, 0)]
      [] sub = VerbUnlink /\ a # <<>> ->
           [cmd |-> called("unlink", a, <<>>), st |-> Step("load", NoLoc, NoResult, 0)]
      [] sub = VerbWhois /\ a # <<>> ->
           [cmd |-> called("whois", a, <<>>), st |-> Step("load", NoLoc, NoResult, 0)]
      [] sub = VerbLink /\ a # <<>> /\ b # <<>> ->
           [cmd |-> called("link", a, b), st |-> do_link(a, b, apiKey, NoLoc, 0)]
      [] sub = VerbStatus /\ a # <<>> ->
           [cmd |-> called("status", a, <<>>), st |-> Step("load", NoLoc, NoResult, 0)]
      [] OTHER -> [cmd |-> called("usage", <<>>, <<>>),
                   st |-> Return("bad_args", {}, NoLoc, 0)]

(* ------------------------------- actions -------------------------------- *)
\* thread p's invocation moves on as st says
Advance(p, st) ==
    /\ pc' = [pc EXCEPT ![p] = st.pc]
    /\ loc' = [loc EXCEPT ![p] = st.loc]
    /\ result' = [result EXCEPT ![p] = st.result]
    /\ calls' = [calls EXCEPT ![p] = st.calls]

\* the host calls execute on thread p with the groups its pattern matched,
\* "a" among aArgs and "b" among bArgs, in a conversation among ctxs
StartWith(p, aArgs, bArgs, ctxs) ==
    /\ pc[p] = "idle"
    /\ started < MaxCmds
    /\ \E sub \in Subs : \E a \in ArgsA(sub, aArgs), b \in ArgsB(sub, bArgs), ctx \in ctxs :
         LET d == Dispatch(sub, a, b, ctx, ApiKeyOf(config)) IN
         /\ cmd' = [cmd EXCEPT ![p] = d.cmd]
         /\ Advance(p, d.st)
    /\ started' = started + 1
    /\ writes' = [writes EXCEPT ![p] = 0]
    /\ UNCHANGED <<config, file, tmp, lock, normVars>>

\* threads of a pool run invocations side by side; two aliases are enough
\* for invocations to meet on one key or on two, and a vanity name takes a
\* link through both of its requests
Start(p) == StartWith(p, {<<>>, <<"@", "F", "o", "o">>, <<"b">>}, {<<>>, <<"g">>}, Contexts)

\* the ResolveVanityURL request of thread p returns (or times out)
VanityReturn(p) ==
    /\ pc[p] = "vanity_wait"
    /\ \E resp \in VanityResponses :
         Advance(p, AfterSid(cmd[p].sub, [loc[p] EXCEPT !.sid = resolve_vanity(resp)],
                             ApiKeyOf(config), calls[p]))
    /\ UNCHANGED <<config, file, tmp, lock, started, cmd, writes, normVars>>

\* the GetPlayerSummaries request of thread p returns (or times out)
SummaryReturn(p) ==
    /\ pc[p] = "summary_wait"
    /\ \E resp \in SummaryResponses :
         Advance(p, AfterInfo(cmd[p].sub, [loc[p] EXCEPT !.info = get_summary(resp)],
                              calls[p]))
    /\ UNCHANGED <<config, file, tmp, lock, started, cmd, writes, normVars>>

\* _load_store: `with _lock` is entered
LoadAcquire(p) ==
    /\ pc[p] = "load"
    /\ lock = 0
    /\ lock' = p
    /\ pc' = [pc EXCEPT ![p] = "load_cs"]
    /\ UNCHANGED <<config, file, tmp, started, cmd, loc, result, calls, writes,
                   normVars>>

\* datetime.now(timezone.utc).timestamp(): the wall clock shows any time,
\* later or (set back) earlier than when it was read before
Now == 0..MaxClock

\* _load_store: the file is read (or the read fails) and the lock released
LoadRead(p) ==
    /\ pc[p] = "load_cs"
    /\ lock = p
    /\ lock' = 0
    /\ \E r \in LoadOutcomes(file) :
         loc' = [loc EXCEPT ![p].store = r.store, ![p].fault = r.fault]
    /\ pc' = [pc EXCEPT ![p] = "load_ret"]
    /\ UNCHANGED <<config, file, tmp, started, cmd, result, calls, writes,
                   normVars>>

\* the handler of thread p goes on with the store _load_store returned, up
\* to its next blocking point; do_link reads the wall clock on the way, at
\* one of the times given
ResumeAt(p, times) ==
    /\ pc[p] = "load_ret"
    /\ \E now \in (IF cmd[p].sub = "link" THEN times ELSE {0}) :
         Advance(p, AfterLoad(cmd[p], loc[p], loc[p].store, ApiKeyOf(config),
                              calls[p], now))
    /\ UNCHANGED <<config, file, tmp, lock, started, cmd, writes, normVars>>

\* _save_store(store): `with _lock` is entered
SaveAcquire(p) ==
    /\ pc[p] = "save"
    /\ lock = 0
    /\ lock' = p
    /\ pc' = [pc EXCEPT ![p] = "save_open"]
    /\ UNCHANGED <<config, file, tmp, started, cmd, loc, result, calls, writes,
                   normVars>>

\* _save_store: open(tmp, "w") creates or truncates the temporary file
SaveOpen(p) ==
    /\ pc[p] = "save_open"
    /\ tmp' = FileOf(<<>>)
    /\ pc' = [pc EXCEPT ![p] = "save_write"]
    /\ UNCHANGED <<config, file, lock, started, cmd, loc, result, calls, writes,
                   normVars>>

\* _save_store writing the document into DATA_FILE itself
SaveWriteInPlace(p) ==
    /\ pc[p] = "save_write"
    /\ LET doc == Serialize(loc[p].store)
           n == Len(tmp.data) + 1
       IN  /\ tmp' = FileOf(Append(tmp.data, doc[n]))
           /\ file' = FileOf(Append(tmp.data, doc[n]))
           /\ pc' = [pc EXCEPT ![p] = IF n = Len(doc) THEN "save_replace" ELSE "save_write"]
    /\ UNCHANGED <<config, lock, started, cmd, loc, result, calls, writes,
                   normVars>>

\* _save_store: json.dump writes the next piece; after the last one the file
\* is closed
SaveWrite(p) ==
    /\ pc[p] = "save_write"
    /\ LET doc == Serialize(loc[p].store)
           n == Len(tmp.data) + 1
       IN  /\ tmp' = FileOf(Append(tmp.data, doc[n]))
           /\ pc' = [pc EXCEPT ![p] = IF n = Len(doc) THEN "save_replace" ELSE "save_write"]
    /\ UNCHANGED <<config, file, lock, started, cmd, loc, result, calls, writes,
                   normVars>>

\* _save_store: os.replace(tmp, DATA_FILE), the lock is released, and the
\* handler returns its text
SaveReplace(p) ==
    /\ pc[p] = "save_replace"
    /\ file' = tmp
    /\ tmp' = Absent
    /\ lock' = 0
    /\ writes' = [writes EXCEPT ![p] = @ + 1]
    /\ pc' = [pc EXCEPT ![p] = "done"]
    /\ result' = [result EXCEPT ![p] =
                    Text(IF cmd[p].sub = "link" THEN "bound" ELSE "unbound", {})]
    /\ UNCHANGED <<config, started, cmd, loc, calls, normVars>>

\* _save_store with acquire() and release() in place of `with`: an
\* exception leaves the lock held
SaveFailHoldsLock(p) ==
    /\ pc[p] \in {"save_open", "save_write", "save_replace"}
    /\ pc' = [pc EXCEPT ![p] = "raised"]
    /\ UNCHANGED <<config, file, tmp, lock, started, cmd, loc, result, calls,
                   writes, normVars>>

\* _save_store: open, write or replace raises OSError; `with` releases the
\* lock and nothing up to execute catches the exception
SaveFail(p) ==
    /\ pc[p] \in {"save_open", "save_write", "save_replace"}
    /\ lock' = 0
    /\ pc' = [pc EXCEPT ![p] = "raised"]
    /\ UNCHANGED <<config, file, tmp, started, cmd, loc, result, calls, writes,
                   normVars>>

\* the host takes the outcome of the invocation; the thread is free again
Finish(p) ==
    /\ pc[p] \in {"done", "raised"}
    /\ pc' = [pc EXCEPT ![p] = "idle"]
    /\ cmd' = [cmd EXCEPT ![p] = NoCmd]
    /\ loc' = [loc EXCEPT ![p] = NoLoc]
    /\ result' = [result EXCEPT ![p] = NoResult]
    /\ calls' = [calls EXCEPT ![p] = 0]
    /\ writes' = [writes EXCEPT ![p] = 0]
    /\ UNCHANGED <<config, file, tmp, lock, started, normVars>>

\* the process dies at any point and the host starts again: every invocation
\* and the lock are gone, the two files are as they were
Crash ==
    /\ \E p \in Threads : pc[p] # "idle"
    /\ pc' = [p \in Threads |-> "idle"]
    /\ cmd' = [p \in Threads |-> NoCmd]
    /\ loc' = [p \in Threads |-> NoLoc]
    /\ result' = [p \in Threads |-> NoResult]
    /\ calls' = [p \in Threads |-> 0]
    /\ writes' = [p \in Threads |-> 0]
    /\ lock' = 0
    /\ UNCHANGED <<config, file, tmp, started, normVars>>

\* every step of an invocation but its start, the wall clock read at one of
\* the times given
Work(times) ==
    \/ \E p \in Threads : VanityReturn(p)
    \/ \E p \in Threads : SummaryReturn(p)
    \/ \E p \in Threads : LoadAcquire(p)
    \/ \E p \in Threads : LoadRead(p)
    \/ \E p \in Threads : ResumeAt(p, times)
    \/ \E p \in Threads : SaveAcquire(p)
    \/ \E p \in Threads : SaveOpen(p)
    \/ \E p \in Threads : SaveWrite(p)
    \/ \E p \in Threads : SaveReplace(p)
    \/ \E p \in Threads : SaveFail(p)
    \/ \E p \in Threads : Finish(p)

\* overlapping invocations within one second of the wall clock
Next ==
    \/ \E p \in Threads : Start(p)
    \/ Work({0})
    \/ Crash

Spec == Init /\ [][Next]_vars

(* ---------------- cooperative dispatch: one invocation at a time -------- *)
\* do_* are plain calls inside the coroutine execute: on one event loop an
\* invocation runs to its end before the next one starts.
SeqStart(p) ==
    /\ \A q \in Threads : pc[q] = "idle"
    /\ StartWith(p, AliasArgs, IdentArgs, Contexts)

\* a document json.load refuses: it stops short of its end
CorruptFiles == { FileOf(<<TokOpen, TokChat("B")>>) }

\* the data file may have been damaged from outside before the plugin runs
SeqInit ==
    /\ config \in Configs
    /\ file \in {Absent} \cup CorruptFiles
    /\ tmp = Absent
    /\ lock = 0
    /\ started = 0
    /\ pc = [p \in Threads |-> "idle"]
    /\ cmd = [p \in Threads |-> NoCmd]
    /\ loc = [p \in Threads |-> NoLoc]
    /\ result = [p \in Threads |-> NoResult]
    /\ calls = [p \in Threads |-> 0]
    /\ writes = [p \in Threads |-> 0]
    /\ nIn = <<>> /\ nOut = None /\ nCalls = 0 /\ nDone = FALSE

\* one invocation after another, the wall clock at any time at each
SeqNext ==
    \/ \E p \in Threads : SeqStart(p)
    \/ Work(Now)
    \/ Crash

SeqSpec == SeqInit /\ [][SeqNext]_vars

(* ------------------- threads that keep running (no crash) --------------- *)
\* A thread that holds the lock does file I/O only and goes on; a thread
\* blocked on the lock is woken when it is released. Nothing is assumed of
\* the remote API: a request may never return.
Fairness ==
    \A p \in Threads :
        /\ SF_vars(LoadAcquire(p))
        /\ SF_vars(SaveAcquire(p))
        /\ WF_vars(LoadRead(p))
        /\ WF_vars(ResumeAt(p, {0}))
        /\ WF_vars(SaveOpen(p))
        /\ WF_vars(SaveWrite(p))
        /\ WF_vars(SaveReplace(p))

\* the lock sees the control flow of the handlers, not their data: one
\* alias and one conversation
FairStart(p) == StartWith(p, {<<>>, <<"b">>}, {<<>>, <<"g">>}, {NoContext})

FairNext ==
    \/ \E p \in Threads : FairStart(p)
    \/ Work({0})

FairSpec == Init /\ [][FairNext]_vars /\ Fairness

(* ------------- a data file that earlier links have filled --------------- *)
\* the summary of the one player the remote API knows
PlayerInfo == CHOOSE i \in { get_summary(r) : r \in SummaryResponses } : ~i.empty

\* the record of `link <alias> 9` made at time 1, and of `link <alias> g`
\* (resolved by the vanity endpoint) made at time 0
RecNumeric ==
    NewRec([NoLoc EXCEPT !.sid = norm_identifier(<<"9">>, <<"k">>, None),
                         !.info = PlayerInfo], 1)
RecVanity ==
    NewRec([NoLoc EXCEPT !.sid = Some(VanitySteamId), !.info = PlayerInfo], 0)

\* the store after `link foo 9` in the global chat and `link foo g` in chat
\* B: one alias, two chats, two records
TwoChatStore ==
    LinkStore(LinkStore(EmptyStore, "global", <<"f", "o", "o">>, RecNumeric),
              "B", <<"f", "o", "o">>, RecVanity)

\* the same after `link b g` in the global chat and `link b 9` in chat B
FourBindingStore ==
    LinkStore(LinkStore(TwoChatStore, "global", <<"b">>, RecVanity),
              "B", <<"b">>, RecNumeric)

\* the data file as _save_store left it in an earlier run of the host
PopulatedFiles == { FileOf(Serialize(TwoChatStore)), FileOf(Serialize(FourBindingStore)) }

ChatInit ==
    /\ config \in Configs
    /\ file \in PopulatedFiles
    /\ tmp = Absent
    /\ lock = 0
    /\ started = 0
    /\ pc = [p \in Threads |-> "idle"]
    /\ cmd = [p \in Threads |-> NoCmd]
    /\ loc = [p \in Threads |-> NoLoc]
    /\ result = [p \in Threads |-> NoResult]
    /\ calls = [p \in Threads |-> 0]
    /\ writes = [p \in Threads |-> 0]
    /\ nIn = <<>> /\ nOut = None /\ nCalls = 0 /\ nDone = FALSE

\* one invocation at a time, in either chat, about "foo", "b" or the
\* numeric target "9", with a numeric or a vanity identifier
ChatStart(p) ==
    /\ \A q \in Threads : pc[q] = "idle"
    /\ StartWith(p, {<<"@", "F", "o", "o">>, <<"b">>, <<"9">>}, {<<"9">>, <<"g">>}, Contexts)

\* execute is a coroutine of the host's event loop: the invocations that
\* follow one another all run on its one thread
ChatNext ==
    \/ ChatStart(1)
    \/ Work({0})

ChatSpec == ChatInit /\ [][ChatNext]_vars

(* ------------------- norm_identifier on its own ------------------------- *)
IdentChars == {" ", "@", "0", "1", "9", "g", "U+0663", "U+00B2"}

StringsUpTo(n) == UNION { [1..k -> IdentChars] : k \in 0..n }

\* 15, 16 and 17 digits, plain and wrapped, a 17-character vanity name, and
\* 16 digit characters that are not ASCII
LongIdents ==
    { [i \in 1..16 |-> "U+00B2"], [i \in 1..16 |-> "U+0663"] } \cup
    { <<"9", "9", "9", "9", "9", "9", "9", "9", "9", "9", "9", "9", "9", "9", "9">>,
      <<"0", "0", "0", "0", "0", "0", "0", "0", "0", "0", "0", "0", "0", "0", "0", "1">>,
      <<"7", "6", "5", "6", "1", "1", "9", "7", "9", "6", "0", "2", "6", "5", "7", "2", "9">>,
      <<" ", "@", "7", "6", "5", "6", "1", "1", "9", "7", "9", "6", "0", "2", "6", "5", "7",
        "2", "9", " ">>,
      <<"7", "6", "5", "6", "1", "1", "9", "7", "9", "6", "0", "2", "6", "5", "7", "2", "g">> }

IdentInputs == StringsUpTo(MaxLen) \cup LongIdents

NormInit ==
    /\ config \in Configs
    /\ file = Absent
    /\ tmp = Absent
    /\ lock = 0
    /\ started = 0
    /\ pc = [p \in Threads |-> "idle"]
    /\ cmd = [p \in Threads |-> NoCmd]
    /\ loc = [p \in Threads |-> NoLoc]
    /\ result = [p \in Threads |-> NoResult]
    /\ calls = [p \in Threads |-> 0]
    /\ writes = [p \in Threads |-> 0]
    /\ nIn \in IdentInputs /\ nOut = None /\ nCalls = 0 /\ nDone = FALSE

\* service.norm_identifier(nIn) runs and returns; resp is what the vanity
\* endpoint answers if asked
NormApply(resp) ==
    /\ ~nDone
    /\ nOut' = norm_identifier(nIn, ApiKeyOf(config), resp)
    /\ nCalls' = IF VanityCalls(nIn, ApiKeyOf(config)) THEN 1 ELSE 0
    /\ nDone' = TRUE
    /\ UNCHANGED <<config, file, tmp, lock, started, pc, cmd, loc, result,
                   calls, writes, nIn>>

NormNext == \E resp \in VanityResponses : NormApply(resp)

NormSpec == NormInit /\ [][NormNext]_vars

(* ======================== properties of the code ======================== *)
\* the store a load of the data file returns now
Persisted == LoadResult(file)

\* the chat keys and alias keys the modelled commands can address
ChatKeys == { _get_chat_key(c) : c \in Contexts }
AliasKeys == { Lower(LStripAt(Strip(a))) : a \in AliasArgs \ {<<>>} }

\* the bindings of a store: chat, alias and record
Items(st) ==
    UNION { { <<st[i].chat, st[i].aliases[j].alias, st[i].aliases[j].rec>> :
                j \in 1..Len(st[i].aliases) } : i \in 1..Len(st) }

\* the chats that have an item in a store
ChatsIn(st) == { st[i].chat : i \in 1..Len(st) }

\* the chat and the alias key a link, unlink or whois of thread p is about
ChatOf(p) == _get_chat_key(cmd[p].ctx)
KeyOf(p) == norm_alias(cmd[p].a)

\* thread p's _save_store replaces the data file in this step
Replaces(p) == pc[p] = "save_replace" /\ pc'[p] = "done"

(* ------------------------------- C9 ------------------------------------- *)
\* the value of a short digit string, in machine integers
RECURSIVE ValOf(_)
ValOf(c) == IF c = <<>> THEN 0 ELSE 10 * ValOf(SubSeq(c, 1, Len(c) - 1)) + DigitOf(c[Len(c)])

\* the six decimal digits of n < 10^6
Dec6(n) == << CharOf((n \div 100000) % 10), CharOf((n \div 10000) % 10),
              CharOf((n \div 1000) % 10), CharOf((n \div 100) % 10),
              CharOf((n \div 10) % 10), CharOf(n % 10) >>

\* 76561197960265728 + v for v < 734272: the offset's leading digits
\* 76561197960 followed by 265728 + v
OffsetPlus(v) == <<"7", "6", "5", "6", "1", "1", "9", "7", "9", "6", "0">> \o Dec6(265728 + v)

Fifteen9 == <<"9", "9", "9", "9", "9", "9", "9", "9", "9", "9", "9", "9", "9", "9", "9">>
\* 999999999999999 + 76561197960265728
Fifteen9Plus == <<"7", "7", "5", "6", "1", "1", "9", "7", "9", "6", "0", "2", "6", "5", "7", "2", "7">>

\* every character of c is a decimal digit (ASCII or not): int(c) is defined
AllDecimal(c) == c # <<>> /\ \A i \in 1..Len(c) : IsDecimalChar(c[i])

\* C9: norm_identifier on an input that is all decimal digits once whitespace
\* and leading @ are trimmed issues no request and returns the input unchanged
\* when it has 16 digits or more, else the decimal string of its value plus
\* 76561197960265728 ("1" gives "76561197960265729"); an input that trims to
\* nothing returns None.
C9_NormIdentifierDigits ==
    nDone =>
      LET c == LStripAt(Strip(nIn)) IN
      /\ c = <<>> => nOut = None /\ nCalls = 0
      /\ AllDecimal(c) =>
           /\ nCalls = 0
           /\ Len(c) >= 16 => nOut = Some(c)
           /\ Len(c) <= 5 => nOut = Some(OffsetPlus(ValOf(c)))
           /\ c = <<"1">> => nOut = Some(<<"7", "6", "5", "6", "1", "1", "9", "7", "9", "6",
                                          "0", "2", "6", "5", "7", "2", "9">>)
           /\ c = Fifteen9 => nOut = Some(Fifteen9Plus)

\* a wrapped SteamID32 was converted
C9_Witness ==
    /\ nDone
    /\ nIn = <<" ", "@", "9">>
    /\ nOut = Some(<<"7", "6", "5", "6", "1", "1", "9", "7", "9", "6", "0", "2", "6", "5",
                     "7", "3", "7">>)
    /\ nCalls = 0

(* ------------------------------- C1 ------------------------------------- *)
\* the record bound to (chat, alias) in store st
Lookup(st, chat, alias) == GetRec(AliasesOf(st, chat), alias)

\* C1: no update is lost: when a link or unlink that read the data file
\* replaces it, every binding other than the one the command is about is in
\* the file after the step exactly as it was before it, whatever the
\* interleaving of the loads and saves of concurrent commands.
C1_NoLostUpdate ==
    [][ \A p \in Threads :
          (Replaces(p) /\ ~loc[p].fault) =>
            \A chat \in ChatKeys, alias \in AliasKeys :
               (chat # ChatOf(p) \/ alias # KeyOf(p)) =>
                  Lookup(LoadResult(file'), chat, alias) = Lookup(Persisted, chat, alias)
      ]_vars

(* ------------------------------- C6 ------------------------------------- *)
\* thread p's _load_store returns in this step
Loads(p) == pc[p] = "load_cs" /\ pc'[p] = "load_ret"

\* thread p's handler runs on from its _load_store in this step
Resumes(p) == pc[p] = "load_ret" /\ pc'[p] \notin {"load_ret", "idle"}

C7_NothingEscapes == \A p \in Threads : pc[p] # "raised"

(* ------------------------------- C8 ------------------------------------- *)
\* C8: without an API key, link, status and whois each return the
\* configuration-error message and issue no request.
C8_NoKeyIsConfigError ==
    \A p \in Threads :
       (ApiKeyOf(config) = <<>> /\ pc[p] = "done" /\ cmd[p].sub \in {"link", "status", "whois"})
          => result[p].msg = "config_error" /\ calls[p] = 0

(* ------------------------------- C2 ------------------------------------- *)
\* f holds one whole document: it parses, and it is the serialisation of
\* the store it parses to
Complete(f) ==
    /\ f.exists
    /\ Parse(f.data).ok
    /\ Serialize(Parse(f.data).store) = f.data

\* C2: at every moment, a crash in the middle of a save and concurrent loads
\* and saves included, the data file is absent or holds one whole document,
\* and it changes only by a save putting the serialisation of its store in
\* place: no load can see a partly written document.
C2_FileAbsentOrComplete ==
    /\ [](file = Absent \/ Complete(file))
    /\ [][ file' # file =>
             \E p \in Threads : Replaces(p) /\ file' = FileOf(Serialize(loc[p].store))
       ]_vars

\* a crash in the middle of a save left a partial temporary file behind
\* while the data file still is the whole document of the save before it
C2_Witness ==
    /\ tmp.exists /\ tmp.data # <<>> /\ ~Parse(tmp.data).ok
    /\ Complete(file)
    /\ Items(Persisted) # {}
    /\ \A p \in Threads : pc[p] = "idle"

(* ------------------------------- C3 ------------------------------------- *)
LinkFailures == {"config_error", "unresolved", "bind_failed"}
SavePcs == {"save", "save_open", "save_write", "save_replace"}

\* C3: a link that fails writes nothing: without a key it returns the
\* configuration error, with an unresolvable identifier or an empty summary
\* its failure message, each time without having written the data file; a
\* link reaches its load and save only with a resolved steamid and a
\* nonempty summary, and the record it stores carries that steamid.
C3_FailedLinkWritesNothing ==
    \A p \in Threads :
       cmd[p].sub = "link" =>
         /\ pc[p] = "done" => result[p].msg \in LinkFailures \cup {"bound"}
         /\ (pc[p] = "done" /\ ApiKeyOf(config) = <<>>) => result[p].msg = "config_error"
         /\ result[p].msg \in LinkFailures => writes[p] = 0
         /\ result[p].msg = "unresolved" => ~Truthy(loc[p].sid)
         /\ result[p].msg = "bind_failed" => loc[p].info.empty
         /\ (pc[p] \in SavePcs \cup {"load", "load_cs", "load_ret", "raised"} \/ writes[p] > 0) =>
               /\ ApiKeyOf(config) # <<>>
               /\ Truthy(loc[p].sid)
               /\ ~loc[p].info.empty
         /\ result[p].msg = "bound" =>
               /\ writes[p] = 1
               /\ Lookup(loc[p].store, ChatOf(p), KeyOf(p)).steamid = loc[p].sid.val

\* a link failed on an empty summary while the data file of an earlier link
\* exists
C3_Witness ==
    \E p \in Threads :
       /\ cmd[p].sub = "link" /\ pc[p] = "done"
       /\ result[p].msg = "bind_failed"
       /\ writes[p] = 0
       /\ file.exists

(* ------------------------------- C4 ------------------------------------- *)
\* C4: unlink persists only on success. The store unlink loads is the one
\* in the data file (the empty one when the file cannot be read). When the
\* normalised alias is bound in the caller's chat of that store, the store
\* it goes on to save is the loaded one less exactly that binding, the save
\* puts that store in the data file and the text reports the removal; when
\* it is not bound (an empty or absent store included) unlink returns
\* "not found", raises nothing and writes nothing.
C4_UnlinkPersistsOnSuccess ==
    /\ [](\A p \in Threads :
            cmd[p].sub = "unlink" =>
              /\ pc[p] = "done" => result[p].msg \in {"not_found", "unbound"}
              /\ result[p].msg = "not_found" => writes[p] = 0
              /\ result[p].msg = "unbound" => writes[p] = 1
              /\ (pc[p] \in SavePcs \cup {"raised"} \/ result[p].msg = "unbound") =>
                    ~HasAlias(AliasesOf(loc[p].store, ChatOf(p)), KeyOf(p)))
    /\ [][ \A p \in Threads :
             cmd[p].sub = "unlink" =>
               /\ (Loads(p) /\ ~loc'[p].fault) => loc'[p].store = Persisted
               /\ (Loads(p) /\ loc'[p].fault) => loc'[p].store = EmptyStore
               /\ Resumes(p) =>
                     LET loaded == loc[p].store
                         bound == Lookup(loaded, ChatOf(p), KeyOf(p))
                     IN
                     IF bound.some
                     THEN /\ pc'[p] = "save"
                          /\ Items(loc'[p].store) = Items(loaded) \ 
                                { <<ChatOf(p), KeyOf(p), rec>> : rec \in
                                    { r \in { it[3] : it \in Items(loaded) } :
                                        [some |-> TRUE] @@ r = bound } }
                          /\ Cardinality(Items(loc'[p].store)) = Cardinality(Items(loaded)) - 1
                          /\ ChatsIn(loc'[p].store) = ChatsIn(loaded)
                     ELSE /\ pc'[p] = "done"
                          /\ result'[p].msg = "not_found"
                          /\ file' = file
               /\ Replaces(p) =>
                     /\ file' = FileOf(Serialize(loc[p].store))
                     /\ result'[p].msg = "unbound"
       ]_vars

\* an unlink removed the only binding of its chat: the data file holds the
\* chat with no alias left
C4_Witness ==
    \E p \in Threads :
       /\ cmd[p].sub = "unlink" /\ pc[p] = "done"
       /\ result[p].msg = "unbound" /\ writes[p] = 1
       /\ Complete(file)
       /\ ChatOf(p) \in ChatsIn(Persisted)
       /\ AliasesOf(Persisted, ChatOf(p)) = <<>>

(* ------------------------------- C5 ------------------------------------- *)
Foo == <<"f", "o", "o">>
FooSpellings == { <<"@", "F", "o", "o">>, <<"f", "o", "o">>, <<" ", "F", "O", "O", " ">> }

\* no key occurs twice among the items of an aliases dict
DistinctKeys(aliases) ==
    \A i, j \in 1..Len(aliases) : aliases[i].alias = aliases[j].alias => i = j

\* the entries of an aliases dict stored under key k
EntriesOf(aliases, k) == { i \in 1..Len(aliases) : aliases[i].alias = k }

\* every persisted alias map has one entry per key, every key a normalised
\* alias, and a link that succeeded left its alias bound under the trimmed,
\* @-stripped, lowercased key ("@Foo", "foo" and " FOO " all under "foo")
OneEntryPerKey ==
    /\ \A chat \in ChatKeys :
          LET al == AliasesOf(Persisted, chat) IN
          /\ DistinctKeys(al)
          /\ \A i \in 1..Len(al) :
                al[i].alias = Lower(al[i].alias)
                /\ (al[i].alias = <<>> \/ (Head(al[i].alias) \notin {" ", "@"}
                                           /\ al[i].alias[Len(al[i].alias)] # " "))
    /\ \A p \in Threads :
         (cmd[p].sub = "link" /\ pc[p] = "done" /\ result[p].msg = "bound") =>
            /\ Lookup(Persisted, ChatOf(p), KeyOf(p)).some
            /\ cmd[p].a \in FooSpellings => Lookup(Persisted, ChatOf(p), Foo).some

\* C5 as stated: while link commands run one after another, every chat's
\* persisted alias map has one entry per normalised alias ("@Foo", "foo" and
\* " FOO " all under "foo"), and a link of a key already bound replaces that
\* record by one with created_at equal or later and adds no second entry.
C5_OneEntryPerNormalisedAlias ==
    /\ []OneEntryPerKey
    /\ [][ \A p \in Threads :
             (cmd[p].sub = "link" /\ Replaces(p)) =>
                LET old == Lookup(Persisted, ChatOf(p), KeyOf(p))
                    new == Lookup(LoadResult(file'), ChatOf(p), KeyOf(p))
                    after == AliasesOf(LoadResult(file'), ChatOf(p))
                IN  /\ new.some
                    /\ Cardinality(EntriesOf(after, KeyOf(p))) = 1
                    /\ old.some => new.created_at >= old.created_at
       ]_vars

\* C5 as the code has it: while link commands run one after another, every
\* chat's persisted alias map has one entry per normalised alias ("@Foo",
\* "foo" and " FOO " all under "foo"); a link of a key already bound replaces
\* that record in its place and adds no entry, a link of a new key adds one
\* entry, and the record's created_at is the wall clock as that link read it
\* (so equal or later than the record it replaces unless the clock was set
\* back in between).
C5_CreatedAtIsClockAsRead ==
    /\ []OneEntryPerKey
    /\ [][ \A p \in Threads :
             (cmd[p].sub = "link" /\ Replaces(p)) =>
                LET old == Lookup(Persisted, ChatOf(p), KeyOf(p))
                    new == Lookup(LoadResult(file'), ChatOf(p), KeyOf(p))
                    before == AliasesOf(Persisted, ChatOf(p))
                    after == AliasesOf(LoadResult(file'), ChatOf(p))
                IN  /\ new.some
                    /\ Cardinality(EntriesOf(after, KeyOf(p))) = 1
                    /\ new.created_at = loc[p].now
                    /\ old.created_at <= loc[p].now => new.created_at >= old.created_at
                    /\ (old.some /\ ~loc[p].fault) =>
                          /\ Len(after) = Len(before)
                          /\ AliasIndex(after, KeyOf(p)) = AliasIndex(before, KeyOf(p))
                    /\ (~old.some /\ ~loc[p].fault) => Len(after) = Len(before) + 1
       ]_vars

\* a second link, spelled " FOO ", is about to replace the record bound
\* under "foo" by a record whose created_at is earlier: the wall clock was
\* set back between the two links
C5_Witness ==
    \E p \in Threads :
       /\ cmd[p].sub = "link" /\ pc[p] = "save_replace"
       /\ cmd[p].a = <<" ", "F", "O", "O", " ">>
       /\ Lookup(Persisted, ChatOf(p), Foo).some
       /\ Lookup(Persisted, ChatOf(p), Foo).created_at = 1
       /\ Lookup(loc[p].store, ChatOf(p), Foo).created_at = 0
       /\ Len(AliasesOf(loc[p].store, ChatOf(p))) = 1

(* ------------------------------- C10 ------------------------------------ *)
\* where a thread is inside `with _lock`
LockPcs == {"load_cs", "save_open", "save_write", "save_replace"}

\* C10: the lock is held by a thread exactly while it is inside the `with`
\* block of a load or a save, so never while it waits for the remote API
\* and never after a load or save ended, by return or by exception; and
\* every load or save that asks for the lock comes to hold it, even when
\* requests of other invocations never return.
C10_LockNotHeldAcrossCalls ==
    /\ [](/\ lock \in {0} \cup Threads
          /\ \A p \in Threads : lock = p <=> pc[p] \in LockPcs)
    /\ \A p \in Threads : (pc[p] \in {"load", "save"}) ~> (lock = p)

\* one thread writes the temporary file under the lock while the request of
\* the other is pending
C10_Witness ==
    \E p, q \in Threads :
       /\ pc[p] = "summary_wait"
       /\ pc[q] = "save_write" /\ lock = q

====
